---- MODULE Spec2Model ----
(***************************************************************************)
(* Model of src/main.py: a Streamlit dashboard that loads project_data.csv,*)
(* filters it by project, renders a chart, builds a prompt from three      *)
(* columns of the filtered rows and sends it to a text-generation client.  *)
(*                                                                         *)
(* Spec    : the script main(), run once per page load and run again, at   *)
(*           once and on a new thread, for every user action (Streamlit's  *)
(*           execution model); the run in progress is told to stop and     *)
(*           goes on, beside the new one, as far as its next st.* call.    *)
(* SpecApi : direct calls of ProjectAnalytics.analyze_timeline,            *)
(*           optimize_resources and assess_risks, and of the filter        *)
(*           statement of main, with any project id.                       *)
(***************************************************************************)
EXTENDS Integers, Sequences, FiniteSets, TLC

\* ------------------------------------------------------------------ bounds
MaxRows == 3        \* longest dataset the methods are called on
MaxPageRows == 2    \* longest dataset in the file of the dashboard
MaxRuns == 3        \* runs of main() in one process (caps the read counter)

\* ------------------------------------------------------------- cell values
\* A cell of the table as pandas holds it: a string, a number, or NaN (a
\* blank cell of the file).  NoValue is Python's None.
Str(x) == [t |-> "str", s |-> x, n |-> 0]
Num(x) == [t |-> "num", s |-> "", n |-> x]
NaN == [t |-> "nan", s |-> "", n |-> 0]
NoValue == [t |-> "none", s |-> "", n |-> 0]

Columns == {"Project_ID", "Task_Name", "Estimated_Days", "Actual_Days",
            "Resource_Allocated", "Efficiency", "Idle_Time",
            "Risk_Type", "Likelihood", "Impact_Level"}

Row(pid, task, est, act, res, eff, idle, risk, lik, imp) ==
    [Project_ID |-> pid, Task_Name |-> Str(task),
     Estimated_Days |-> Num(est), Actual_Days |-> Num(act),
     Resource_Allocated |-> Str(res), Efficiency |-> Num(eff),
     Idle_Time |-> Num(idle), Risk_Type |-> Str(risk),
     Likelihood |-> Num(lik), Impact_Level |-> Num(imp)]

\* The records the enumerated input files are made of.  Two rows of P1 that
\* differ in every column, a row of P2 that repeats column values of P1, and
\* a row whose Project_ID cell is blank.
SampleRows ==
    { Row(Str("P1"), "Design", 5, 7, "Alice", 80, 2, "Technical", 3, 2),
      Row(Str("P1"), "Build", 10, 9, "Bob", 60, 4, "Budget", 1, 3),
      Row(Str("P2"), "Design", 5, 7, "Alice", 90, 1, "Technical", 2, 2),
      Row(NaN, "Test", 3, 3, "Carol", 70, 0, "Schedule", 2, 1) }

\* The Project_ID cells of the sample rows.
SampleRowIds == {r.Project_ID : r \in SampleRows}

\* Project identifiers (a blank cell is the absence of one).
ProjectIds == {Str("P1"), Str("P2"), Str("P3")}

\* Arguments the methods of ProjectAnalytics are called with directly.
ApiIds == ProjectIds \cup {NaN}

\* Tables of up to max tasks, every task on one row.
TablesUpTo(max) ==
    UNION {{t \in [1..n -> SampleRows] :
              \A i, j \in 1..n : i # j => t[i] # t[j]} : n \in 0..max}

Tables == TablesUpTo(MaxRows)

\* The file of the dashboard lists the sample tasks project by project: P1,
\* P1, P2, blank.
SampleFile ==
    << Row(Str("P1"), "Design", 5, 7, "Alice", 80, 2, "Technical", 3, 2),
       Row(Str("P1"), "Build", 10, 9, "Bob", 60, 4, "Budget", 1, 3),
       Row(Str("P2"), "Design", 5, 7, "Alice", 90, 1, "Technical", 2, 2),
       Row(NaN, "Test", 3, 3, "Carol", 70, 0, "Schedule", 2, 1) >>

\* The rows of a table at the positions S, in the order of the table.
RowsAt(table, S) ==
    [k \in 1..Cardinality(S) |->
        table[CHOOSE i \in S : Cardinality({j \in S : j < i}) = k - 1]]

\* The files of the dashboard: up to MaxPageRows of the tasks of SampleFile.
PageTables ==
    {RowsAt(SampleFile, S) :
        S \in {T \in SUBSET (1..Len(SampleFile)) :
                  Cardinality(T) <= MaxPageRows}}

\* A file that parses as a table but is not the table of the dashboard:
\* header "hello,world", one row "1,2".
WrongHeaderCols == {"hello", "world"}
WrongHeaderRows == << [hello |-> Num(1), world |-> Num(2)] >>

\* The input file: absent (FileNotFoundError), empty (EmptyDataError), or
\* delimited text, which read_csv parses whatever its header is.
Files == {[status |-> "missing", cols |-> {}, rows |-> <<>>],
          [status |-> "empty", cols |-> {}, rows |-> <<>>],
          [status |-> "ok", cols |-> WrongHeaderCols,
           rows |-> WrongHeaderRows]}
         \cup {[status |-> "ok", cols |-> Columns, rows |-> t] :
                 t \in PageTables}

\* Texts the generation service may answer with.
Texts == {"T1", "T2"}

\* ------------------------------------------------------------------ pandas
\* Series == scalar, elementwise: NaN equals nothing, None equals nothing.
PdEq(cell, p) ==
    /\ cell.t \notin {"nan", "none"}
    /\ p.t \notin {"nan", "none"}
    /\ cell = p

\* Fault variant of Mask: the comparison written != instead of ==.
Mask_negated(df, p) == [i \in 1..Len(df) |-> ~PdEq(df[i].Project_ID, p)]

\* df['Project_ID'] == project_id : the boolean mask, one entry per row.
Mask(df, p) == [i \in 1..Len(df) |-> PdEq(df[i].Project_ID, p)]

\* Fault variant of BoolIndex: the selected rows come out in reverse order.
RECURSIVE BoolIndex_reversed(_, _)
BoolIndex_reversed(df, mask) ==
    IF df = <<>> THEN <<>>
    ELSE LET rest == BoolIndex_reversed(Tail(df), Tail(mask))
         IN IF Head(mask) THEN rest \o <<Head(df)>> ELSE rest

\* df[mask] : the rows whose mask entry is True, in the order of df.
RECURSIVE BoolIndex(_, _)
BoolIndex(df, mask) ==
    IF df = <<>> THEN <<>>
    ELSE LET rest == BoolIndex(Tail(df), Tail(mask))
         IN IF Head(mask) THEN <<Head(df)>> \o rest ELSE rest

\* df[df['Project_ID'] == project_id]
Filter(df, p) == BoolIndex(df, Mask(df, p))

\* project_data[col].tolist()
ToList(rows, col) == [i \in 1..Len(rows) |-> rows[i][col]]

\* Same value for Series.unique(): all NaN count as one value.
RECURSIVE Unique(_)
Unique(vals) ==
    IF vals = <<>> THEN <<>>
    ELSE LET init == Unique(SubSeq(vals, 1, Len(vals) - 1))
             last == vals[Len(vals)]
         IN IF \E i \in 1..Len(init) : init[i] = last
            THEN init ELSE Append(init, last)

\* ----------------------------------------------------------------- prompts
\* A prompt is the sequence of pieces the f-string is made of: pieces of
\* literal text (k = "lit") and the repr of list elements (k = "val").
Lit(x) == [k |-> "lit", s |-> x, v |-> NoValue]
Repr(cell) == [k |-> "val", s |-> "", v |-> cell]

\* str(list): "[" repr(e1) ", " repr(e2) ... "]"
RECURSIVE Joined(_)
Joined(vals) ==
    IF vals = <<>> THEN <<>>
    ELSE IF Len(vals) = 1 THEN <<Repr(vals[1])>>
    ELSE <<Repr(vals[1]), Lit(", ")>> \o Joined(Tail(vals))

PyList(vals) == <<Lit("[")>> \o Joined(vals) \o <<Lit("]")>>

TimelinePrompt(project_data) ==
    <<Lit("Analyze this project timeline data:"), Lit("Tasks: ")>>
    \o PyList(ToList(project_data, "Task_Name"))
    \o <<Lit("Estimated Days: ")>>
    \o PyList(ToList(project_data, "Estimated_Days"))
    \o <<Lit("Actual Days: ")>>
    \o PyList(ToList(project_data, "Actual_Days"))
    \o <<Lit("Provide:"),
         Lit("1. Timeline prediction based on historical data"),
         Lit("2. Potential delays and bottlenecks"),
         Lit("3. Schedule optimization suggestions")>>

\* Fault variant of ResourcePrompt: the Efficiency and Idle Time lists are
\* taken from each other's column.
ResourcePrompt_swapped(project_data) ==
    <<Lit("Analyze resource data:"), Lit("Resources: ")>>
    \o PyList(ToList(project_data, "Resource_Allocated"))
    \o <<Lit("Efficiency: ")>>
    \o PyList(ToList(project_data, "Idle_Time"))
    \o <<Lit("Idle Time: ")>>
    \o PyList(ToList(project_data, "Efficiency"))
    \o <<Lit("Provide:"),
         Lit("1. Resource utilization recommendations"),
         Lit("2. How to minimize idle time"),
         Lit("3. Efficiency improvement suggestions")>>

ResourcePrompt(project_data) ==
    <<Lit("Analyze resource data:"), Lit("Resources: ")>>
    \o PyList(ToList(project_data, "Resource_Allocated"))
    \o <<Lit("Efficiency: ")>>
    \o PyList(ToList(project_data, "Efficiency"))
    \o <<Lit("Idle Time: ")>>
    \o PyList(ToList(project_data, "Idle_Time"))
    \o <<Lit("Provide:"),
         Lit("1. Resource utilization recommendations"),
         Lit("2. How to minimize idle time"),
         Lit("3. Efficiency improvement suggestions")>>

RiskPrompt(project_data) ==
    <<Lit("Analyze project risks:"), Lit("Risk Types: ")>>
    \o PyList(ToList(project_data, "Risk_Type"))
    \o <<Lit("Likelihood: ")>>
    \o PyList(ToList(project_data, "Likelihood"))
    \o <<Lit("Impact: ")>>
    \o PyList(ToList(project_data, "Impact_Level"))
    \o <<Lit("Provide:"),
         Lit("1. Risk assessment summary"),
         Lit("2. Mitigation strategies"),
         Lit("3. Priority recommendations")>>

Methods == {"analyze_timeline", "optimize_resources", "assess_risks"}

BuildPrompt(method, project_data) ==
    CASE method = "analyze_timeline" -> TimelinePrompt(project_data)
      [] method = "optimize_resources" -> ResourcePrompt(project_data)
      [] OTHER -> RiskPrompt(project_data)

\* ---------------------------------------------------------------- the state
VARIABLES
    file,             \* project_data.csv as it is on disk
    reads,            \* number of pd.read_csv calls made by this process
    runs,             \* number of runs of main() started by this process
    old,              \* runs told to stop that are still executing
    stale,            \* widgets of earlier runs still on the page
    pc,               \* position in main() of the current run
    reads_in_run,     \* number of pd.read_csv calls made by the current run
    df,               \* main: df
    analytics,        \* main: analytics (its field df)
    w_analysis,       \* session value of the "Select Analysis" selectbox
    w_project,        \* session value of the "Select Project" selectbox
    w_button,         \* label of the button whose click this run carries
    analysis_type,    \* main: analysis_type
    selected_project, \* main: selected_project
    project_df,       \* main: project_df
    ui,               \* elements rendered by the current run
    mpc,              \* position in the running method of ProjectAnalytics
    method,           \* which method is running
    project_id,       \* its argument
    project_data,     \* its local project_data
    prompt,           \* its local prompt
    calls,            \* prompts passed to generate_content by this run
    result,           \* response.text of the last successful call
    prev              \* the last prompt sent, with its method and argument

vars == <<file, reads, runs, old, stale, pc, reads_in_run, df, analytics,
          w_analysis, w_project, w_button, analysis_type, selected_project,
          project_df, ui, mpc, method, project_id, project_data, prompt,
          calls, result, prev>>

processVars == <<file, reads, runs, old>>
mainLocals == <<reads_in_run, df, analytics, analysis_type, selected_project,
                project_df>>
methodVars == <<mpc, method, project_id, project_data, prompt, calls,
                result, prev>>
widgetVars == <<w_analysis, w_project, w_button>>

\* A DataFrame reference, or None.
Frame(cols, rows) == [none |-> FALSE, cols |-> cols, rows |-> rows]
NoFrame == [none |-> TRUE, cols |-> {}, rows |-> <<>>]

AnalysisTypes ==
    <<"Predictive Scheduling", "Resource Optimization", "Risk Assessment">>

\* An element shown on the page.
El(w, s, rows) == [w |-> w, s |-> s, rows |-> rows]

NoPrev == [set |-> FALSE, method |-> "", id |-> NoValue, prompt |-> <<>>]

\* The widgets an earlier run has rendered stay on the page, operable, until
\* the current run renders them again or ends.
NoStale == [analysis |-> FALSE, project |-> FALSE, button |-> ""]

\* One run of main(): its position, its locals, the widget values it was
\* started with and the elements it has rendered.
Cur ==
    [pc |-> pc, reads_in_run |-> reads_in_run, df |-> df,
     analytics |-> analytics, w_analysis |-> w_analysis,
     w_project |-> w_project, w_button |-> w_button,
     analysis_type |-> analysis_type, selected_project |-> selected_project,
     project_df |-> project_df, ui |-> ui, mpc |-> mpc, method |-> method,
     project_id |-> project_id, project_data |-> project_data,
     prompt |-> prompt, calls |-> calls, result |-> result, prev |-> prev]

\* The current run takes the state r.
Becomes(r) ==
    /\ pc' = r.pc
    /\ reads_in_run' = r.reads_in_run
    /\ df' = r.df
    /\ analytics' = r.analytics
    /\ w_analysis' = r.w_analysis
    /\ w_project' = r.w_project
    /\ w_button' = r.w_button
    /\ analysis_type' = r.analysis_type
    /\ selected_project' = r.selected_project
    /\ project_df' = r.project_df
    /\ ui' = r.ui
    /\ mpc' = r.mpc
    /\ method' = r.method
    /\ project_id' = r.project_id
    /\ project_data' = r.project_data
    /\ prompt' = r.prompt
    /\ calls' = r.calls
    /\ result' = r.result
    /\ prev' = r.prev

\* A run at the top of main() with the widget values of the session.
FreshRun(a, p, b) ==
    [pc |-> "start", reads_in_run |-> 0, df |-> NoFrame,
     analytics |-> [made |-> FALSE, df |-> NoFrame], w_analysis |-> a,
     w_project |-> p, w_button |-> b, analysis_type |-> "",
     selected_project |-> NoValue, project_df |-> <<>>, ui |-> <<>>,
     mpc |-> "none", method |-> "analyze_timeline", project_id |-> NoValue,
     project_data |-> <<>>, prompt |-> <<>>, calls |-> <<>>, result |-> "",
     prev |-> NoPrev]

\* ------------------------------------------------------------- load_data()
\* pd.read_csv('project_data.csv') raises for an absent or an empty file.
ReadCsvRaises(f) == f.status # "ok"

\* load_data: the frame read, or None after st.error(...).
LoadData(f) ==
    IF ReadCsvRaises(f)
    THEN [df |-> NoFrame,
          shown |-> <<El("error", "Error loading data: " \o f.status, <<>>)>>]
    ELSE [df |-> Frame(f.cols, f.rows), shown |-> <<>>]

\* ------------------------------------------------------------------ main()
\* st.title("Project Management Analytics")
MainTitle ==
    /\ pc = "start"
    /\ ui' = <<El("title", "Project Management Analytics", <<>>)>>
    /\ pc' = "read"
    /\ UNCHANGED <<stale, processVars, mainLocals, widgetVars, methodVars>>

\* load_data: df = pd.read_csv('project_data.csv'), by a run r.
ReadStep(r) ==
    [r EXCEPT !.reads_in_run = @ + 1,
              !.df = LoadData(file).df,
              !.pc = IF ReadCsvRaises(file) THEN "load_error" ELSE "check"]

\* Fault variant of MainRead: the table is read once and cached.
MainRead_cached ==
    /\ pc = "read"
    /\ Becomes([ReadStep(Cur) EXCEPT
                  !.reads_in_run = IF reads = 0 THEN 1 ELSE 0])
    /\ reads' = (IF reads = 0 THEN 1 ELSE reads)
    /\ UNCHANGED <<file, runs, old, stale>>

\* df = load_data(), as far as the return of read_csv.
MainRead ==
    /\ pc = "read"
    /\ Becomes(ReadStep(Cur))
    /\ reads' = reads + 1
    /\ UNCHANGED <<file, runs, old, stale>>

\* load_data: except Exception as e: st.error(...); return None
MainLoadError ==
    /\ pc = "load_error"
    /\ ui' = ui \o LoadData(file).shown
    /\ pc' = "check"
    /\ UNCHANGED <<stale, processVars, mainLocals, widgetVars, methodVars>>

\* if df is None: st.stop()
MainStop ==
    /\ pc = "check"
    /\ df.none
    /\ pc' = "stopped"
    /\ stale' = NoStale
    /\ UNCHANGED <<processVars, mainLocals, widgetVars, ui, methodVars>>

\* analytics = ProjectAnalytics(df), by a run r.
ConstructStep(r) ==
    [r EXCEPT !.analytics = [made |-> TRUE, df |-> r.df],
              !.pc = "select_analysis"]

MainConstruct ==
    /\ pc = "check"
    /\ ~df.none
    /\ Becomes(ConstructStep(Cur))
    /\ UNCHANGED <<stale, processVars>>

\* st.selectbox(label, options): the session's value when it is an option,
\* else the first option, None when there is no option.
Selectbox(options, state) ==
    IF \E i \in 1..Len(options) : options[i] = state THEN state
    ELSE IF options = <<>> THEN NoValue
    ELSE options[1]

ProjectOptions(frame) == Unique(ToList(frame.rows, "Project_ID"))

\* analysis_type = st.sidebar.selectbox("Select Analysis", [...])
MainSelectAnalysis ==
    /\ pc = "select_analysis"
    /\ analysis_type' = w_analysis
    /\ ui' = Append(ui, El("selectbox", "Select Analysis", <<>>))
    /\ stale' = [stale EXCEPT !.analysis = FALSE]
    /\ pc' = "select_project"
    /\ UNCHANGED <<processVars, reads_in_run, df, analytics, selected_project,
                   project_df, widgetVars, methodVars>>

\* selected_project = st.selectbox("Select Project", df['Project_ID'].unique())
MainSelectProject ==
    /\ pc = "select_project"
    /\ "Project_ID" \in df.cols
    /\ selected_project' = Selectbox(ProjectOptions(df), w_project)
    /\ w_project' = selected_project'
    /\ ui' = Append(ui, El("selectbox", "Select Project", <<>>))
    /\ stale' = [stale EXCEPT !.project = FALSE]
    /\ pc' = "header"
    /\ UNCHANGED <<processVars, reads_in_run, df, analytics, analysis_type,
                   project_df, w_analysis, w_button, methodVars>>

\* df['Project_ID'] raises KeyError when the table has no such column; the
\* exception leaves main() uncaught and Streamlit shows it.
MainKeyError ==
    /\ pc = "select_project"
    /\ "Project_ID" \notin df.cols
    /\ ui' = Append(ui, El("exception", "KeyError: 'Project_ID'", <<>>))
    /\ stale' = NoStale
    /\ pc' = "crashed"
    /\ UNCHANGED <<processVars, mainLocals, widgetVars, methodVars>>

\* Fault variant of Branch: the Resource Optimization branch calls
\* assess_risks.
Branch_swapped(atype) ==
    IF atype = "Predictive Scheduling"
    THEN [header |-> "Predictive Scheduling", button |-> "Analyze Timeline",
          chart |-> "Task Duration Analysis", method |-> "analyze_timeline",
          subheader |-> "AI Insights"]
    ELSE IF atype = "Resource Optimization"
    THEN [header |-> "Resource Optimization", button |-> "Optimize Resources",
          chart |-> "Resource Utilization Analysis",
          method |-> "assess_risks",
          subheader |-> "Optimization Recommendations"]
    ELSE [header |-> "Risk Assessment", button |-> "Assess Risks",
          chart |-> "Risk Matrix", method |-> "assess_risks",
          subheader |-> "Risk Assessment"]

\* The branch of the if / elif / else chain taken for an analysis type.
Branch(atype) ==
    IF atype = "Predictive Scheduling"
    THEN [header |-> "Predictive Scheduling", button |-> "Analyze Timeline",
          chart |-> "Task Duration Analysis", method |-> "analyze_timeline",
          subheader |-> "AI Insights"]
    ELSE IF atype = "Resource Optimization"
    THEN [header |-> "Resource Optimization", button |-> "Optimize Resources",
          chart |-> "Resource Utilization Analysis",
          method |-> "optimize_resources",
          subheader |-> "Optimization Recommendations"]
    ELSE [header |-> "Risk Assessment", button |-> "Assess Risks",
          chart |-> "Risk Matrix", method |-> "assess_risks",
          subheader |-> "Risk Assessment"]

\* st.header(...)
MainHeader ==
    /\ pc = "header"
    /\ ui' = Append(ui, El("header", Branch(analysis_type).header, <<>>))
    /\ pc' = "button"
    /\ UNCHANGED <<stale, processVars, mainLocals, widgetVars, methodVars>>

\* if st.button(...): True in the run that carries this button's click.
MainButton ==
    /\ pc = "button"
    /\ ui' = Append(ui, El("button", Branch(analysis_type).button, <<>>))
    /\ pc' = (IF w_button = Branch(analysis_type).button
              THEN "spinner" ELSE "done")
    /\ stale' = (IF pc' = "done" THEN NoStale
                 ELSE [stale EXCEPT !.button = ""])
    /\ UNCHANGED <<processVars, mainLocals, widgetVars, methodVars>>

\* with st.spinner("Analyzing..."): entering the block puts an empty
\* placeholder on the page (an st.* call) and arms a timer.
MainSpinner ==
    /\ pc = "spinner"
    /\ pc' = "filter"
    /\ UNCHANGED <<stale, processVars, mainLocals, widgetVars, ui, methodVars>>

\* The block of the with statement, from its first statement to its exit.
InSpinnerBlock == pc \in {"filter", "plot", "call", "in_method", "write",
                          "leave"}

\* The page with the spinner in the placeholder, which follows the button.
WithSpinner(page) ==
    LET at == CHOOSE i \in 1..Len(page) : page[i].w = "button"
    IN SubSeq(page, 1, at) \o <<El("spinner", "Analyzing...", <<>>)>>
       \o SubSeq(page, at + 1, Len(page))

\* The timer of st.spinner fires while the block is running: the spinner
\* takes the place of the placeholder.
SpinnerTimer ==
    /\ InSpinnerBlock
    /\ \A i \in 1..Len(ui) : ui[i].w # "spinner"
    /\ ui' = WithSpinner(ui)
    /\ UNCHANGED <<stale, processVars, pc, mainLocals, widgetVars, methodVars>>

\* Fault variant of FilterStep: the filter result is assigned to df itself.
FilterStep_inplace(r) ==
    [r EXCEPT !.project_df = Filter(r.df.rows, r.selected_project),
              !.df = Frame(r.df.cols, Filter(r.df.rows, r.selected_project)),
              !.pc = "plot"]

\* project_df = df[df['Project_ID'] == selected_project], by a run r.
FilterStep(r) ==
    [r EXCEPT !.project_df = Filter(r.df.rows, r.selected_project),
              !.pc = "plot"]

MainFilter ==
    /\ pc = "filter"
    /\ Becomes(FilterStep(Cur))
    /\ UNCHANGED <<stale, processVars>>

\* Fault variant of MainPlot: the chart is not put on the page before the
\* method is called.
MainPlot_nochart ==
    /\ pc = "plot"
    /\ pc' = "call"
    /\ UNCHANGED <<stale, processVars, mainLocals, widgetVars, ui, methodVars>>

\* fig = px.bar(project_df, ...) / px.scatter(...); st.plotly_chart(fig)
MainPlot ==
    /\ pc = "plot"
    /\ ui' = Append(ui, El("chart", Branch(analysis_type).chart, project_df))
    /\ pc' = "call"
    /\ UNCHANGED <<stale, processVars, mainLocals, widgetVars, methodVars>>

\* analytics.analyze_timeline(selected_project) and its two siblings: entry,
\* by a run r.
CallStep(r) ==
    [r EXCEPT !.method = Branch(r.analysis_type).method,
              !.project_id = r.selected_project,
              !.mpc = "filter",
              !.pc = "in_method"]

MainCall ==
    /\ pc = "call"
    /\ Becomes(CallStep(Cur))
    /\ UNCHANGED <<stale, processVars>>

\* st.subheader(...), once the method has returned
MainSubheader ==
    /\ pc = "in_method"
    /\ mpc = "returned"
    /\ ui' = Append(ui, El("subheader", Branch(analysis_type).subheader,
                           <<>>))
    /\ mpc' = "none"
    /\ pc' = "write"
    /\ UNCHANGED <<stale, processVars, mainLocals, widgetVars, method, project_id,
                   project_data, prompt, calls, result, prev>>

\* st.write(analysis)
MainWrite ==
    /\ pc = "write"
    /\ ui' = Append(ui, El("write", result, <<>>))
    /\ pc' = "leave"
    /\ UNCHANGED <<stale, processVars, mainLocals, widgetVars, methodVars>>

\* Leaving the with block empties the placeholder (an st.* call).
WithoutSpinner(page) == SelectSeq(page, LAMBDA e : e.w # "spinner")

\* End of the with block and of main().
MainLeave ==
    /\ pc = "leave"
    /\ ui' = WithoutSpinner(ui)
    /\ stale' = NoStale
    /\ pc' = "done"
    /\ UNCHANGED <<processVars, mainLocals, widgetVars, methodVars>>

\* The exception of the method leaves the with block, whose exit empties
\* the placeholder, and then main() uncaught; Streamlit shows it.
MainCrash ==
    /\ pc = "in_method"
    /\ mpc = "raised"
    /\ ui' = Append(WithoutSpinner(ui),
                    El("exception", "generate_content", <<>>))
    /\ stale' = NoStale
    /\ mpc' = "none"
    /\ pc' = "crashed"
    /\ UNCHANGED <<processVars, mainLocals, widgetVars, method, project_id,
                   project_data, prompt, calls, result, prev>>

\* ------------------------------------------------------- ProjectAnalytics
\* project_data = self.df[self.df['Project_ID'] == project_id], by a run r.
MFilterStep(r) ==
    [r EXCEPT !.project_data = Filter(r.analytics.df.rows, r.project_id),
              !.mpc = "prompt"]

MFilter ==
    /\ mpc = "filter"
    /\ Becomes(MFilterStep(Cur))
    /\ UNCHANGED <<stale, processVars>>

\* Fault variant of MPromptStep: an empty selection is rejected with an
\* error.
MPromptStep_rejects_empty(r) ==
    IF r.project_data = <<>> THEN [r EXCEPT !.mpc = "raised"]
    ELSE [r EXCEPT !.prompt = BuildPrompt(r.method, r.project_data),
                   !.mpc = "generate"]

\* prompt = f"""...""", by a run r.
MPromptStep(r) ==
    [r EXCEPT !.prompt = BuildPrompt(r.method, r.project_data),
              !.mpc = "generate"]

MPrompt ==
    /\ mpc = "prompt"
    /\ Becomes(MPromptStep(Cur))
    /\ UNCHANGED <<stale, processVars>>

\* self.model.generate_content(prompt), by a run r: the prompt is passed to
\* the client and the thread waits for the answer.  Other threads go on
\* meanwhile: the timer of the spinner, the run of a newer user action.
MGenerateCallStep(r) ==
    [r EXCEPT !.calls = Append(@, r.prompt),
              !.prev = [set |-> TRUE, method |-> r.method,
                        id |-> r.project_id, prompt |-> r.prompt],
              !.mpc = "waiting"]

MGenerateCall ==
    /\ mpc = "generate"
    /\ Becomes(MGenerateCallStep(Cur))
    /\ UNCHANGED <<stale, processVars>>

\* response = <the answer of the client>; return response.text
MGenerateOkStep(r, text) ==
    [r EXCEPT !.result = text,
              !.mpc = "returned"]

MGenerateOk(text) ==
    /\ mpc = "waiting"
    /\ Becomes(MGenerateOkStep(Cur, text))
    /\ UNCHANGED <<stale, processVars>>

\* Fault variant of MGenerateFailStep: a failed call is tried once more.
MGenerateFailStep_retry(r) ==
    [r EXCEPT !.mpc = IF Len(r.calls) = 1 THEN "generate" ELSE "raised"]

\* generate_content raises (network, credential, quota): nothing catches it.
MGenerateFailStep(r) ==
    [r EXCEPT !.mpc = "raised"]

MGenerateFail ==
    /\ mpc = "waiting"
    /\ Becomes(MGenerateFailStep(Cur))
    /\ UNCHANGED <<stale, processVars>>

\* ---------------------------------------------------------- user actions
\* A user action on a widget that is on the page makes Streamlit start a
\* new run of main() at once, with the widgets' values, on a new thread; the
\* run in progress is told to stop, which it does at its next st.* call.
RunEnded(r) == r.pc \in {"done", "stopped", "crashed"}

\* Told to stop, run r still executes statements that act on the file, the
\* table or the client: its next statement is not an st.* call.
Running(r) ==
    \/ r.pc \in {"read", "filter", "call"}
    \/ r.pc = "check" /\ ~r.df.none
    \/ r.pc = "in_method"
         /\ r.mpc \in {"filter", "prompt", "generate", "waiting"}

OnPage(w, s) == \E i \in 1..Len(ui) : ui[i].w = w /\ ui[i].s = s

\* Widgets on the page: rendered by the current run, or left by an earlier
\* one and not yet replaced.
AnalysisOnPage == OnPage("selectbox", "Select Analysis") \/ stale.analysis
ProjectOnPage == OnPage("selectbox", "Select Project") \/ stale.project
ButtonsOnPage ==
    {ui[i].s : i \in {k \in 1..Len(ui) : ui[k].w = "button"}}
    \cup (IF stale.button = "" THEN {} ELSE {stale.button})

\* Streamlit stops the current run and starts a new one: the session keeps
\* the widgets' values, the script's locals start afresh, and what is on
\* the page stays there until the new run renders over it.  A stopped run
\* whose next statement is an st.* call ends there, having done nothing
\* more.
StartRun(a, p, b) ==
    /\ runs < MaxRuns
    /\ runs' = runs + 1
    /\ old' = (IF Running(Cur)
               THEN Append(old, [Cur EXCEPT !.ui = WithoutSpinner(ui)])
               ELSE old)
    /\ stale' = [analysis |-> AnalysisOnPage, project |-> ProjectOnPage,
                 button |-> IF ButtonsOnPage = {} THEN ""
                            ELSE CHOOSE x \in ButtonsOnPage : TRUE]
    /\ Becomes(FreshRun(a, p, b))
    /\ UNCHANGED <<file, reads>>

ChangeAnalysisType(t) ==
    /\ AnalysisOnPage
    /\ t # w_analysis
    /\ StartRun(t, w_project, "")

\* The options of the project selectbox on the page are those of the table
\* in the file, which every run reads.
ChangeProject(p) ==
    /\ ProjectOnPage
    /\ \E i \in 1..Len(ProjectOptions(file)) : ProjectOptions(file)[i] = p
    /\ p # w_project
    /\ StartRun(w_analysis, p, "")

PressButton(b) ==
    /\ b \in ButtonsOnPage
    /\ StartRun(w_analysis, w_project, b)

\* "Rerun" from the menu of the page, without touching a widget.
Rerun ==
    /\ runs < MaxRuns
    /\ StartRun(w_analysis, w_project, "")

\* What a stopped run r may do next: the statements of main() and of the
\* methods that are not st.* calls.
Successors(r) ==
    (IF r.pc = "read" THEN {ReadStep(r)} ELSE {})
    \cup (IF r.pc = "check" /\ ~r.df.none THEN {ConstructStep(r)} ELSE {})
    \cup (IF r.pc = "filter" THEN {FilterStep(r)} ELSE {})
    \cup (IF r.pc = "call" THEN {CallStep(r)} ELSE {})
    \cup (IF r.pc = "in_method" /\ r.mpc = "filter"
          THEN {MFilterStep(r)} ELSE {})
    \cup (IF r.pc = "in_method" /\ r.mpc = "prompt"
          THEN {MPromptStep(r)} ELSE {})
    \cup (IF r.pc = "in_method" /\ r.mpc = "generate"
          THEN {MGenerateCallStep(r)} ELSE {})
    \cup (IF r.pc = "in_method" /\ r.mpc = "waiting"
          THEN {MGenerateOkStep(r, text) : text \in Texts}
               \cup {MGenerateFailStep(r)}
          ELSE {})

Remove(seq, i) == SubSeq(seq, 1, i - 1) \o SubSeq(seq, i + 1, Len(seq))

\* A stopped run executes its next statement; when that brings it to an
\* st.* call the run ends there, without rendering.
StoppedRunStep(i) ==
    /\ i \in 1..Len(old)
    /\ \E s \in Successors(old[i]) :
         /\ old' = (IF Running(s) THEN [old EXCEPT ![i] = s]
                    ELSE Remove(old, i))
         /\ reads' = reads + (s.reads_in_run - old[i].reads_in_run)
    /\ UNCHANGED <<file, runs, stale, pc, mainLocals, widgetVars, ui,
                   methodVars>>

\* ------------------------------------------------------------------- Spec
Init ==
    /\ file \in Files
    /\ reads = 0
    /\ runs = 1
    /\ old = <<>>
    /\ stale = NoStale
    /\ pc = "start"
    /\ reads_in_run = 0
    /\ df = NoFrame
    /\ analytics = [made |-> FALSE, df |-> NoFrame]
    /\ w_analysis = AnalysisTypes[1]
    /\ w_project = NoValue
    /\ w_button = ""
    /\ analysis_type = ""
    /\ selected_project = NoValue
    /\ project_df = <<>>
    /\ ui = <<>>
    /\ mpc = "none"
    /\ method = "analyze_timeline"
    /\ project_id = NoValue
    /\ project_data = <<>>
    /\ prompt = <<>>
    /\ calls = <<>>
    /\ result = ""
    /\ prev = NoPrev

Next ==
    \/ MainTitle
    \/ MainRead
    \/ MainLoadError
    \/ MainStop
    \/ MainConstruct
    \/ MainSelectAnalysis
    \/ MainSelectProject
    \/ MainKeyError
    \/ MainHeader
    \/ MainButton
    \/ MainSpinner
    \/ SpinnerTimer
    \/ MainFilter
    \/ MainPlot
    \/ MainCall
    \/ MFilter
    \/ MPrompt
    \/ MGenerateCall
    \/ \E text \in Texts : MGenerateOk(text)
    \/ MGenerateFail
    \/ MainSubheader
    \/ MainWrite
    \/ MainLeave
    \/ MainCrash
    \/ \E t \in {AnalysisTypes[i] : i \in 1..3} : ChangeAnalysisType(t)
    \/ \E p \in SampleRowIds : ChangeProject(p)
    \/ \E b \in {Branch(AnalysisTypes[i]).button : i \in 1..3} : PressButton(b)
    \/ Rerun
    \/ \E i \in 1..MaxRuns : StoppedRunStep(i)

Spec == Init /\ [][Next]_vars

\* ---------------------------------------------------------------- SpecApi
\* A caller holding a ProjectAnalytics over a loaded table calls its methods.
ApiCall(m, p) ==
    /\ pc = "api"
    /\ mpc \in {"none", "returned", "raised"}
    /\ method' = m
    /\ project_id' = p
    /\ calls' = <<>>
    /\ mpc' = "filter"
    /\ UNCHANGED <<stale, processVars, pc, mainLocals, widgetVars, ui,
                   project_data, prompt, result, prev>>

\* The caller applies the filter statement of main() to the table and an
\* identifier.
ApiFilter(p) ==
    /\ pc = "api"
    /\ mpc \in {"none", "returned", "raised"}
    /\ Becomes([FilterStep([Cur EXCEPT !.selected_project = p])
                  EXCEPT !.pc = "api"])
    /\ UNCHANGED <<stale, processVars>>

InitApi ==
    /\ file \in {[status |-> "ok", cols |-> Columns, rows |-> t] : t \in Tables}
    /\ reads = 0
    /\ runs = 0
    /\ old = <<>>
    /\ stale = NoStale
    /\ pc = "api"
    /\ reads_in_run = 0
    /\ df = Frame(file.cols, file.rows)
    /\ analytics = [made |-> TRUE, df |-> Frame(file.cols, file.rows)]
    /\ w_analysis = AnalysisTypes[1]
    /\ w_project = NoValue
    /\ w_button = ""
    /\ analysis_type = ""
    /\ selected_project = NoValue
    /\ project_df = <<>>
    /\ ui = <<>>
    /\ mpc = "none"
    /\ method = "analyze_timeline"
    /\ project_id = NoValue
    /\ project_data = <<>>
    /\ prompt = <<>>
    /\ calls = <<>>
    /\ result = ""
    /\ prev = NoPrev

NextApi ==
    \/ \E m \in Methods, p \in ApiIds : ApiCall(m, p)
    \/ \E p \in ApiIds : ApiFilter(p)
    \/ MFilter
    \/ MPrompt
    \/ MGenerateCall
    \/ \E text \in Texts : MGenerateOk(text)
    \/ MGenerateFail

SpecApi == InitApi /\ [][NextApi]_vars

\* ================================================================= claims
\* Helpers of the properties (not part of the program).

\* The runs of main() in progress or just ended: the current one and the
\* stopped ones still executing.
Live == {Cur} \cup {old[i] : i \in 1..Len(old)}

\* Positions of the rows of a table that carry identifier p.
Positions(rows, p) == {i \in 1..Len(rows) : rows[i].Project_ID = p}

\* The k-th smallest member of a set of positions.
NthOf(S, k) == CHOOSE i \in S : Cardinality({j \in S : j < i}) = k - 1

\* out is exactly the rows of the table that carry p, in the table's order.
ExactlyRowsOf(out, rows, p) ==
    /\ Len(out) = Cardinality(Positions(rows, p))
    /\ \A k \in 1..Len(out) : out[k] = rows[NthOf(Positions(rows, p), k)]

Occurs(rows, p) == \E i \in 1..Len(rows) : rows[i].Project_ID = p

FilterDoneInMethod ==
    mpc \in {"prompt", "generate", "waiting", "returned", "raised"}
PromptBuilt == mpc \in {"generate", "waiting", "returned", "raised"}

\* Position of the first occurrence of a piece in a prompt (0 if absent).
FirstIndex(seq, piece) ==
    IF \E i \in 1..Len(seq) : seq[i] = piece
    THEN CHOOSE i \in 1..Len(seq) :
            seq[i] = piece /\ \A j \in 1..(i - 1) : seq[j] # piece
    ELSE 0

\* The pieces of the list that follows a label, between "[" and "]".
ListPieces(seq, label) ==
    LET at == FirstIndex(seq, Lit(label))
        close == CHOOSE j \in (at + 2)..Len(seq) :
                    /\ seq[j] = Lit("]")
                    /\ \A m \in (at + 2)..(j - 1) : seq[m] # Lit("]")
    IN SubSeq(seq, at + 2, close - 1)

\* A label is followed by a well-formed list of exactly the given values.
HasList(seq, label, vals) ==
    LET at == FirstIndex(seq, Lit(label))
        inner == ListPieces(seq, label)
    IN /\ at > 0
       /\ at + 2 <= Len(seq)
       /\ seq[at + 1] = Lit("[")
       /\ \E j \in (at + 2)..Len(seq) : seq[j] = Lit("]")
       /\ Len(inner) = (IF vals = <<>> THEN 0 ELSE 2 * Len(vals) - 1)
       /\ \A k \in 1..Len(vals) :
            /\ inner[2 * k - 1].k = "val"
            /\ inner[2 * k - 1].v = vals[k]
       /\ \A k \in 1..(Len(vals) - 1) : inner[2 * k] = Lit(", ")

\* The opening line, the labels and the columns of each kind of analysis.
KindOf(m) ==
    IF m = "analyze_timeline"
    THEN [opening |-> "Analyze this project timeline data:",
          lists |-> << <<"Tasks: ", "Task_Name">>,
                       <<"Estimated Days: ", "Estimated_Days">>,
                       <<"Actual Days: ", "Actual_Days">> >>]
    ELSE IF m = "optimize_resources"
    THEN [opening |-> "Analyze resource data:",
          lists |-> << <<"Resources: ", "Resource_Allocated">>,
                       <<"Efficiency: ", "Efficiency">>,
                       <<"Idle Time: ", "Idle_Time">> >>]
    ELSE [opening |-> "Analyze project risks:",
          lists |-> << <<"Risk Types: ", "Risk_Type">>,
                       <<"Likelihood: ", "Likelihood">>,
                       <<"Impact: ", "Impact_Level">> >>]

\* A prompt is the one of kind m over the given rows.
IsPromptOf(seq, m, rows) ==
    /\ seq # <<>>
    /\ seq[1] = Lit(KindOf(m).opening)
    /\ \A c \in 1..3 :
         HasList(seq, KindOf(m).lists[c][1],
                 [k \in 1..Len(rows) |-> rows[k][KindOf(m).lists[c][2]]])

ShownIn(page, w) == \E i \in 1..Len(page) : page[i].w = w
IndexIn(page, w) == CHOOSE i \in 1..Len(page) : page[i].w = w
Shown(w) == ShownIn(ui, w)
IndexShown(w) == IndexIn(ui, w)

\* C1: for every project identifier that occurs in the dataset, the filter
\* statement of main (project_df, for selected_project) and the filter of
\* the three analysis methods (project_data, for project_id) return exactly
\* the records carrying that identifier: none with another identifier, none
\* missing, in the order of the dataset.
C1_FilterExact ==
    /\ (selected_project \in ProjectIds /\ Occurs(df.rows, selected_project))
         => ExactlyRowsOf(project_df, df.rows, selected_project)
    /\ (FilterDoneInMethod /\ project_id \in ProjectIds
            /\ Occurs(analytics.df.rows, project_id))
         => ExactlyRowsOf(project_data, analytics.df.rows, project_id)

\* Two rows of P1 followed by a row of P2, filtered for P1 by the statement
\* of main and by a method: both hold the first two rows, in that order.
C1_Witness ==
    /\ mpc = "prompt"
    /\ project_id = Str("P1")
    /\ selected_project = Str("P1")
    /\ Len(df.rows) = 3
    /\ df.rows[1].Project_ID = Str("P1")
    /\ df.rows[2].Project_ID = Str("P1")
    /\ df.rows[3].Project_ID = Str("P2")
    /\ project_data = <<df.rows[1], df.rows[2]>>
    /\ project_df = project_data

\* C2: for every project identifier that occurs in no record, the filter of
\* the analysis methods returns the empty sequence and the method goes on
\* to build its prompt: an error is raised only by the client call.
C2_AbsentEmpty ==
    (project_id \in ProjectIds /\ ~Occurs(analytics.df.rows, project_id))
      => /\ FilterDoneInMethod => project_data = <<>>
         /\ mpc = "raised" => Len(calls) = 1

\* An identifier absent from a full table has been filtered for.
C2_Witness ==
    /\ mpc = "prompt"
    /\ method = "optimize_resources"
    /\ project_id = Str("P3")
    /\ Len(analytics.df.rows) = MaxRows
    /\ project_data = <<>>

\* C3: the prompt built for a filtered subsequence and a kind holds, after
\* each of the kind's three labels, the list of that column's values in the
\* order of the subsequence; and the same method called again with the same
\* argument builds the prompt it sent before.
C3_PromptContent ==
    /\ PromptBuilt => IsPromptOf(prompt, method, project_data)
    /\ (mpc = "generate" /\ prev.set /\ prev.method = method
            /\ prev.id = project_id)
         => prompt = prev.prompt

\* A two-row subsequence, built a second time for the same request.
C3_Witness ==
    /\ mpc = "generate"
    /\ method = "assess_risks"
    /\ Len(project_data) = 2
    /\ project_data[1] # project_data[2]
    /\ prev.set /\ prev.method = method /\ prev.id = project_id
    /\ Len(prompt) = 23

\* C4: when the filtered subsequence is empty each method still builds its
\* prompt, with three empty lists, and sends exactly that prompt to the
\* client; the only failure is the client's own.
C4_EmptyStillSent ==
    (project_data = <<>> /\ PromptBuilt)
      => /\ \A c \in 1..3 :
              LET at == FirstIndex(prompt, Lit(KindOf(method).lists[c][1]))
              IN /\ at > 0
                 /\ prompt[at + 1] = Lit("[")
                 /\ prompt[at + 2] = Lit("]")
         /\ mpc \in {"returned", "raised"} => calls = <<prompt>>

\* A prompt of empty lists has been sent and answered.
C4_Witness ==
    /\ mpc = "returned"
    /\ method = "analyze_timeline"
    /\ analytics.df.rows # <<>>
    /\ project_data = <<>>
    /\ calls = <<prompt>>
    /\ Len(prompt) = 14

\* The page a run shows when load_data has failed.
LoadFailurePage ==
    <<El("title", "Project Management Analytics", <<>>),
      El("error", "Error loading data: " \o file.status, <<>>)>>

\* The input file is the table of the dashboard (its ten columns).
WellFormed(f) == f.status = "ok" /\ Columns \subseteq f.cols

\* C5: when the input file is missing or malformed, load_data shows the
\* error and returns None and main stops: the page is the title and the
\* error, no selectbox is offered, no filter applied, no prompt built, the
\* client never called.
C5_LoadFailureHalts ==
    ~WellFormed(file)
      => /\ pc \in {"start", "read", "load_error", "check", "stopped"}
         /\ mpc = "none"
         /\ df.none
         /\ ~analytics.made
         /\ pc = "stopped" => ui = LoadFailurePage
         /\ \A i \in 1..Len(ui) : ui[i].w \notin {"selectbox", "exception"}
         /\ project_df = <<>> /\ project_data = <<>>
         /\ prompt = <<>> /\ calls = <<>> /\ ~prev.set

\* What holds of a run r around a failed client call.
FailureRule(r) ==
    /\ Len(r.calls) <= 1
    /\ (r.mpc = "raised" \/ (r.pc = "crashed" /\ r.calls # <<>>))
         => /\ Len(r.calls) = 1
            /\ ~ShownIn(r.ui, "write") /\ ~ShownIn(r.ui, "subheader")
    /\ (r.pc = "crashed" /\ r.calls # <<>>)
         => r.ui[Len(r.ui)] = El("exception", "generate_content", <<>>)

\* C6: a failed client call is not retried and is surfaced: every run of a
\* user action, the stopped ones that are still executing included, calls
\* the client at most once; no run has rendered a result heading or text
\* after a failed call; the failure leaves the method and nothing in main
\* catches it: the run goes on only by the exception leaving main, which
\* is then the last element of the page, unless a user action has started
\* the next run in its place.
C6_FailureSurfaced ==
    /\ [](\A r \in Live : FailureRule(r))
    /\ [][(mpc = "raised" /\ mpc' # "raised")
            => (pc' = "crashed" \/ runs' = runs + 1)]_vars

\* The client failed once and the run ended with the exception shown.
C6_Witness ==
    /\ pc = "crashed"
    /\ Len(calls) = 1
    /\ Shown("exception")
    /\ Shown("chart")
    /\ ~Shown("spinner")

\* C7 as stated: the input file is read exactly once whatever the user does.
C7_ReadOncePerProcess == pc \notin {"start", "read"} => reads = 1

\* The current run executes load_data in this step.
CurReads == pc = "read" /\ pc' # "read" /\ runs' = runs

\* A stopped run executes load_data in this step.
OldReads ==
    \E i \in 1..Len(old) :
        /\ old[i].pc = "read"
        /\ runs' = runs
        /\ \/ old' = Remove(old, i)
           \/ Len(old') = Len(old) /\ old'[i].pc # "read"

\* C7 (amended): the dataset is loaded once per run of main, not once per
\* process.  Every run, current or stopped, has read the file exactly once
\* when it is past load_data and not at all before; the file is read
\* exactly when a run executes load_data, so at most once per run started;
\* and every user action starts a new run, which begins without having
\* read anything.
C7_ReadOncePerRun ==
    /\ [](/\ \A r \in Live :
               r.reads_in_run = (IF r.pc \in {"start", "read"} THEN 0 ELSE 1)
          /\ reads <= runs
          /\ (runs = 1 /\ pc \notin {"start", "read"}) => reads = 1)
    /\ [][/\ reads' = (IF CurReads \/ OldReads THEN reads + 1 ELSE reads)
          /\ (w_analysis' # w_analysis \/ w_button' # w_button
                \/ runs' # runs)
               => /\ runs' = runs + 1
                  /\ pc' = "start"
                  /\ reads_in_run' = 0]_vars

\* Two user actions after the first run: three runs, three reads.
C7_Witness ==
    /\ pc = "done"
    /\ runs = 3
    /\ reads = 3
    /\ reads_in_run = 1
    /\ file.status = "ok"

\* The dataset a run r holds is the table of the file.
ReadOnlyIn(r) ==
    /\ ~r.df.none => (r.df.rows = file.rows /\ r.df.cols = file.cols)
    /\ r.analytics.made
         => /\ ~r.analytics.df.none
            /\ r.analytics.df.rows = file.rows
            /\ r.analytics.df.cols = file.cols

\* C8: the loaded dataset is never modified: in every run, the current one
\* and the stopped ones executing beside it, main's df and the df held by
\* the ProjectAnalytics object are the records of the file, in their order,
\* at every point of the run.
C8_DatasetReadOnly == \A r \in Live : ReadOnlyIn(r)

\* A stopped run has filtered a proper part of the table and waits for the
\* client, while the run of the next user action has filtered, charted,
\* called the client and shown the answer.
C8_Witness ==
    /\ Len(old) = 1
    /\ old[1].mpc = "waiting"
    /\ Len(old[1].calls) = 1
    /\ Len(old[1].df.rows) = 2
    /\ Len(old[1].project_df) = 1
    /\ pc = "done"
    /\ Len(df.rows) = 2
    /\ Len(project_df) = 1
    /\ Len(calls) = 1
    /\ Shown("chart")
    /\ Shown("write")

\* The button of an analysis type, and the method behind it.
ButtonOf(atype) ==
    IF atype = "Predictive Scheduling" THEN "Analyze Timeline"
    ELSE IF atype = "Resource Optimization" THEN "Optimize Resources"
    ELSE "Assess Risks"

MethodOf(atype) ==
    IF atype = "Predictive Scheduling" THEN "analyze_timeline"
    ELSE IF atype = "Resource Optimization" THEN "optimize_resources"
    ELSE "assess_risks"

\* Run r carries the click of the button of its analysis type.
Pressed(r) == r.w_button = ButtonOf(r.w_analysis)

\* What holds of the client calls of a run r, however it ends.
CallRule(r) ==
    /\ Len(r.calls) <= 1
    /\ r.calls # <<>>
         => /\ r.w_button = ButtonOf(r.analysis_type)
            /\ r.analysis_type = r.w_analysis
            /\ r.selected_project = r.w_project
            /\ IsPromptOf(r.calls[1], MethodOf(r.analysis_type),
                          Filter(r.df.rows, r.selected_project))
    /\ (r.pc \in {"done", "crashed"} /\ r.w_button = ButtonOf(r.analysis_type))
         => Len(r.calls) = 1
    /\ ~Pressed(r) => (r.mpc = "none" /\ r.calls = <<>>)

\* C9 as stated: a run that carries the click calls the client exactly
\* once, also when it is stopped for a newer user action.
C9_ExactlyOncePerPress ==
    /\ [](\A r \in Live : CallRule(r))
    /\ [][/\ (runs' = runs + 1 /\ old' = old /\ Pressed(Cur))
               => Len(calls) = 1
          /\ \A i \in 1..Len(old) :
               (runs' = runs /\ old' = Remove(old, i) /\ Pressed(old[i]))
                 => Len(old[i].calls) = 1]_vars

\* C9 (amended): the client is called only by a run that carries the click
\* of the button of the selected analysis type, at most once, with the
\* prompt of the kind of that analysis type built from the rows of the
\* project selected in that run; a run with the click that reaches its end
\* (the answer shown, or the client's exception) has called exactly once; a
\* run without the click never enters a method and sends nothing.
C9_CallOnlyOnButton == \A r \in Live : CallRule(r)

\* The second project of the table was selected and the button pressed:
\* the run has called the client once and shown the answer.
C9_Witness ==
    /\ pc = "done"
    /\ w_button = "Analyze Timeline"
    /\ analysis_type = "Predictive Scheduling"
    /\ selected_project = Str("P2")
    /\ df.rows[1].Project_ID = Str("P1")
    /\ Len(calls) = 1

\* The order of what a run r has rendered around its client call.
ChartOrder(r) ==
    /\ (r.pc \in {"call", "in_method", "write", "leave"} \/ r.calls # <<>>)
         => /\ ShownIn(r.ui, "chart")
            /\ r.ui[IndexIn(r.ui, "chart")].rows
                 = Filter(r.df.rows, r.selected_project)
    /\ (ShownIn(r.ui, "write") \/ ShownIn(r.ui, "subheader"))
         => /\ Len(r.calls) = 1
            /\ r.mpc # "raised"
            /\ ShownIn(r.ui, "chart") /\ ShownIn(r.ui, "subheader")
            /\ IndexIn(r.ui, "chart") < IndexIn(r.ui, "subheader")
            /\ r.ui[IndexIn(r.ui, "subheader")].s \in
                 {"AI Insights", "Optimization Recommendations",
                  "Risk Assessment"}
    /\ ShownIn(r.ui, "write")
         => /\ IndexIn(r.ui, "subheader") < IndexIn(r.ui, "write")
            /\ r.ui[IndexIn(r.ui, "write")].s = r.result
    /\ (r.mpc = "raised" \/ (r.pc = "crashed" /\ r.calls # <<>>))
         => /\ ShownIn(r.ui, "chart")
            /\ ~ShownIn(r.ui, "subheader") /\ ~ShownIn(r.ui, "write")

\* C10: in every run of a button press, the current one and the stopped
\* ones executing beside it, the chart of the selected project's rows has
\* been rendered before the method is entered; the result heading and text
\* are rendered only after the client has returned, in that order after
\* the chart; after a client failure the chart has been rendered and the
\* result has not.
C10_ChartBeforeCall == \A r \in Live : ChartOrder(r)

\* A stopped run has rendered its chart and waits for the client while the
\* run of the next button press has rendered a non-empty chart and its
\* client call has failed.
C10_Witness ==
    /\ Len(old) = 1
    /\ old[1].mpc = "waiting"
    /\ Len(old[1].calls) = 1
    /\ ShownIn(old[1].ui, "chart")
    /\ pc = "crashed"
    /\ calls # <<>>
    /\ Shown("chart")
    /\ ui[IndexShown("chart")].rows # <<>>
    /\ ~Shown("write")

====
